---------------------------- MODULE Spec2Model ----------------------------
(***************************************************************************)
(* A model of the second-hand platform of src/main.py: the identifier      *)
(* allocator, the User and Product records, the Storage class with its two *)
(* JSON documents, the image import, and the handlers of SecondHandApp     *)
(* that change them.                                                       *)
(*                                                                         *)
(* Six specifications share the variables:                                 *)
(*   Spec        the application: Storage() on a pair of documents, then   *)
(*               any sequence of handlers;                                 *)
(*   SpecStorage the Storage class as src/pytest.py drives it: open, raw   *)
(*               appends, save_users, save_products, open again;           *)
(*   SpecFiles   the same with each save split into opening the file and   *)
(*               dumping into it, and with documents of any origin;        *)
(*   SpecImages  copy_image_to_storage, pick_avatar and add_img on a       *)
(*               managed directory;                                        *)
(*   SpecAlloc   ensure_int_id applied again and again to a growing list;  *)
(*   SpecCrash   the application from no document, with the process dying  *)
(*               between document writes and starting again.               *)
(***************************************************************************)
EXTENDS Integers, Sequences, FiniteSets, TLC

VARIABLES
    phase,          \* "closed": no Storage object yet; "open": Storage constructed
    users,          \* Storage.users: the list of User records
    products,       \* Storage.products: the list of Product records
    users_file,     \* the users document on disk
    products_file,  \* the products document on disk
    current_user,   \* SecondHandApp.current_user: a position in users, 0 for
                    \* None, -1 for a User object that is no longer in users
    last,           \* the handler that ran last, its outcome and its selection
    writes,         \* the documents the last handler wrote, in order
    loaded_users,   \* what load_users returned when the Storage was constructed
    loaded_products,\* what load_products returned then
    retired_uids,   \* userIds of the users deleted so far
    retired_pids,   \* productIds of the products deleted so far
    saved,          \* SpecStorage: which collections were saved since they last changed
    alloc_ids,      \* SpecAlloc: the list of ids handed to ensure_int_id
    alloc_out,      \* SpecAlloc: the ids it returned, oldest first
    saving,         \* the document a save has opened and not yet closed, or "none"
    before,         \* what that document held when the save opened it
    images_dir,     \* the managed directory images/: file name -> content
    pending,        \* the images list of the open publish or edit form
    returned        \* the calls of copy_image_to_storage, oldest first: the
                    \* source handed over and the result returned

appvars == <<phase, users, products, users_file, products_file, current_user,
             last, writes, loaded_users, loaded_products, retired_uids,
             retired_pids>>
allocvars == <<alloc_ids, alloc_out>>
filevars == <<saving, before>>
imgvars == <<images_dir, pending, returned>>
others == <<saved, allocvars, filevars, imgvars>>
vars == <<appvars, others>>

(***************************************************************************)
(* Bounds of the model.                                                    *)
(***************************************************************************)
MaxUsers == 2
MaxProducts == 1
MaxComments == 1
MaxId == 3
MaxAllocLen == 3
MaxDocLen == 2
MaxPicks == 1
MaxImports == 2

(***************************************************************************)
(* Sequence helpers.                                                       *)
(***************************************************************************)
Range(s) == {s[i] : i \in DOMAIN s}

\* Python's x in s
Contains(s, x) == \E i \in DOMAIN s : s[i] = x

\* Python's max(s) for a non-empty list of integers
SeqMax(s) == CHOOSE m \in Range(s) : \A x \in Range(s) : x <= m

SeqMinimum(s) == CHOOSE m \in Range(s) : \A x \in Range(s) : m <= x

\* Python's del s[i] (positions from 1 here)
DelAt(s, i) == SubSeq(s, 1, i - 1) \o SubSeq(s, i + 1, Len(s))

\* s.remove(x) when x in s: the FIRST occurrence goes, the others stay
RemoveFirst(s, x) ==
    LET i == CHOOSE k \in DOMAIN s : s[k] = x /\ \A j \in 1..(k - 1) : s[j] # x
    IN  DelAt(s, i)

(***************************************************************************)
(* ensure_int_id                                                           *)
(***************************************************************************)
ensure_int_id_min(existing_ids) ==
    IF existing_ids # <<>> THEN SeqMinimum(existing_ids) + 1 ELSE 1

ensure_int_id_len(existing_ids) == Len(existing_ids) + 1

ensure_int_id(existing_ids) ==
    IF existing_ids # <<>> THEN SeqMax(existing_ids) + 1 ELSE 1

(***************************************************************************)
(* safe_float: a float is named by its repr, an entry by its text.         *)
(* float() accepts surrounding blanks, integers, "nan" and "inf".          *)
(***************************************************************************)
FloatOf(v) ==
    CASE v = "3"     -> "3.0"
      [] v = " 7 "   -> "7.0"
      [] v = "12.5"  -> "12.5"
      [] v = "-1"    -> "-1.0"
      [] v = "nan"   -> "nan"
      [] v = "inf"   -> "inf"
      [] OTHER       -> "ValueError"

safe_float(v, default) ==
    IF FloatOf(v) = "ValueError" THEN default ELSE FloatOf(v)

(***************************************************************************)
(* The data models.                                                        *)
(***************************************************************************)
User(userId, email, phone, password, nickname, avatar, is_admin, favorites) ==
    [userId |-> userId, email |-> email, phone |-> phone,
     password |-> password, nickname |-> nickname, avatar |-> avatar,
     is_admin |-> is_admin, favorites |-> favorites]

\* an update that also clears the admin flag
updateProfile_demoting(u, email, phone, nickname, avatar) ==
    [u EXCEPT !.email = email, !.phone = phone, !.nickname = nickname,
              !.avatar = avatar, !.is_admin = FALSE]

updateProfile(u, email, phone, nickname, avatar) ==
    [u EXCEPT !.email = email, !.phone = phone, !.nickname = nickname,
              !.avatar = avatar]

Product(productId, name, category, description, price, images, sellerId, comments) ==
    [productId |-> productId, name |-> name, category |-> category,
     description |-> description, price |-> price, images |-> images,
     sellerId |-> sellerId, comments |-> comments]

\* an edit that also hands the product to another seller
edit_changing_seller(p, name, category, description, price, images) ==
    [p EXCEPT !.name = name, !.category = category,
              !.description = description, !.price = price,
              !.images = images, !.sellerId = p.sellerId + 1]

\* an edit that also empties the comments
edit_dropping_comments(p, name, category, description, price, images) ==
    [p EXCEPT !.name = name, !.category = category,
              !.description = description, !.price = price,
              !.images = images, !.comments = <<>>]

edit(p, name, category, description, price, images) ==
    [p EXCEPT !.name = name, !.category = category,
              !.description = description, !.price = price,
              !.images = images]

Comment(userId, nickname, text) ==
    [userId |-> userId, nickname |-> nickname, text |-> text]

\* x == y on two float objects: nan is equal to no float, nan included
float_eq(x, y) == x = y /\ x # "nan"

\* the __eq__ that @dataclass gives Product: the fields compared in order
Product_eq(p, q) ==
    /\ p.productId = q.productId
    /\ p.name = q.name
    /\ p.category = q.category
    /\ p.description = q.description
    /\ float_eq(p.price, q.price)
    /\ p.images = q.images
    /\ p.sellerId = q.sellerId
    /\ p.comments = q.comments

\* ps == qs on two lists of distinct Product objects
Products_eq(ps, qs) ==
    /\ Len(ps) = Len(qs)
    /\ \A i \in DOMAIN ps : Product_eq(ps[i], qs[i])

UserIds(us) == [i \in DOMAIN us |-> us[i].userId]
ProductIds(ps) == [i \in DOMAIN ps |-> ps[i].productId]

(***************************************************************************)
(* JSON.  A document is the list of objects json.dump writes; an object is *)
(* the list of its <<key, value>> members in the order asdict gives them.  *)
(* A float is written as its repr, except nan and the infinities, which    *)
(* json writes as NaN, Infinity and -Infinity.                             *)
(***************************************************************************)
Member(obj, key) == \E i \in DOMAIN obj : obj[i][1] = key

Get(obj, key) == obj[CHOOSE i \in DOMAIN obj : obj[i][1] = key][2]

GetOr(obj, key, default) == IF Member(obj, key) THEN Get(obj, key) ELSE default

float_to_json(x) ==
    CASE x = "nan"  -> "NaN"
      [] x = "inf"  -> "Infinity"
      [] x = "-inf" -> "-Infinity"
      [] OTHER      -> x

json_to_float(t) ==
    CASE t = "NaN"       -> "nan"
      [] t = "Infinity"  -> "inf"
      [] t = "-Infinity" -> "-inf"
      [] OTHER           -> t

comment_to_json(c) ==
    << <<"userId", c.userId>>, <<"nickname", c.nickname>>, <<"text", c.text>> >>

comment_of_json(o) ==
    Comment(Get(o, "userId"), Get(o, "nickname"), Get(o, "text"))

\* asdict(u), as json.dump writes it
user_to_json(u) ==
    << <<"userId", u.userId>>, <<"email", u.email>>, <<"phone", u.phone>>,
       <<"password", u.password>>, <<"nickname", u.nickname>>,
       <<"avatar", u.avatar>>, <<"is_admin", u.is_admin>>,
       <<"favorites", u.favorites>> >>

\* User(**u): avatar, is_admin and favorites have defaults
user_of_json_nofav(o) ==
    User(Get(o, "userId"), Get(o, "email"), Get(o, "phone"),
         Get(o, "password"), Get(o, "nickname"), GetOr(o, "avatar", ""),
         GetOr(o, "is_admin", FALSE), <<>>)

user_of_json(o) ==
    User(Get(o, "userId"), Get(o, "email"), Get(o, "phone"),
         Get(o, "password"), Get(o, "nickname"), GetOr(o, "avatar", ""),
         GetOr(o, "is_admin", FALSE), GetOr(o, "favorites", <<>>))

\* asdict(p), as json.dump writes it
product_to_json(p) ==
    << <<"productId", p.productId>>, <<"name", p.name>>,
       <<"category", p.category>>, <<"description", p.description>>,
       <<"price", float_to_json(p.price)>>, <<"images", p.images>>,
       <<"sellerId", p.sellerId>>,
       <<"comments", [i \in DOMAIN p.comments |-> comment_to_json(p.comments[i])]>> >>

\* Product(**p): comments has a default
product_of_json(o) ==
    Product(Get(o, "productId"), Get(o, "name"), Get(o, "category"),
            Get(o, "description"), json_to_float(Get(o, "price")),
            Get(o, "images"), Get(o, "sellerId"),
            LET cs == GetOr(o, "comments", <<>>)
            IN  [i \in DOMAIN cs |-> comment_of_json(cs[i])])

\* A path with no file, and a file holding a document.  syntax tells what
\* json.load makes of the text: "array", a JSON array whose elements are
\* data; "object", the JSON object {}; "invalid", text that is not JSON (an
\* empty file, or an array cut after the records in data).
NoFile == [exists |-> FALSE, syntax |-> "none", data |-> <<>>]
FileOf(doc) == [exists |-> TRUE, syntax |-> "array", data |-> doc]
EmptyObjectFile == [exists |-> TRUE, syntax |-> "object", data |-> <<>>]
CutFile(doc) == [exists |-> TRUE, syntax |-> "invalid", data |-> doc]

\* The keywords of an object, and the ones User(**u) and Product(**p) take:
\* a missing keyword without a default, or an unknown one, is a TypeError
Keys(obj) == {obj[i][1] : i \in DOMAIN obj}
UserFields ==
    {"userId", "email", "phone", "password", "nickname", "avatar", "is_admin",
     "favorites"}
UserRequired == {"userId", "email", "phone", "password", "nickname"}
ProductFields ==
    {"productId", "name", "category", "description", "price", "images",
     "sellerId", "comments"}
ProductRequired == ProductFields \ {"comments"}

(***************************************************************************)
(* Storage                                                                 *)
(***************************************************************************)
\* load_users returns: json.load parses the text and User(**u) takes every
\* element (iterating over {} yields nothing)
users_load_ok(file) ==
    \/ ~file.exists
    \/ /\ file.syntax # "invalid"
       /\ \A i \in DOMAIN file.data :
              /\ UserRequired \subseteq Keys(file.data[i])
              /\ Keys(file.data[i]) \subseteq UserFields

products_load_ok(file) ==
    \/ ~file.exists
    \/ /\ file.syntax # "invalid"
       /\ \A i \in DOMAIN file.data :
              /\ ProductRequired \subseteq Keys(file.data[i])
              /\ Keys(file.data[i]) \subseteq ProductFields

load_users(file) ==
    IF ~file.exists THEN <<>>
    ELSE [i \in DOMAIN file.data |-> user_of_json(file.data[i])]

save_users(us) == FileOf([i \in DOMAIN us |-> user_to_json(us[i])])

load_products(file) ==
    IF ~file.exists THEN <<>>
    ELSE [i \in DOMAIN file.data |-> product_of_json(file.data[i])]

save_products(ps) == FileOf([i \in DOMAIN ps |-> product_to_json(ps[i])])

\* not any(u.is_admin for u in self.users)
NoAdminAlways(us) == TRUE

NoAdmin(us) == ~\E i \in DOMAIN us : us[i].is_admin

DefaultAdminFirstId(us) ==
    User(1, "admin@example.com", "", "admin", "Administrator", "", TRUE, <<>>)

DefaultAdmin(us) ==
    User(ensure_int_id(UserIds(us)), "admin@example.com", "", "admin",
         "Administrator", "", TRUE, <<>>)

Op(op, ok, arg) == [op |-> op, ok |-> ok, arg |-> arg]

\* Storage.__init__ on the two paths.  When a load raises, __init__ raises:
\* the caller gets no Storage and keeps what it had.
StorageOpen(name) ==
    IF users_load_ok(users_file) /\ products_load_ok(products_file)
    THEN LET lu == load_users(users_file)
             lp == load_products(products_file)
         IN  /\ loaded_users' = lu
             /\ loaded_products' = lp
             /\ products' = lp
             /\ IF NoAdmin(lu)
                THEN /\ users' = Append(lu, DefaultAdmin(lu))
                     /\ users_file' = save_users(users')
                     /\ writes' = <<"users">>
                ELSE /\ users' = lu
                     /\ writes' = <<>>
                     /\ UNCHANGED users_file
             /\ phase' = "open"
             /\ current_user' = 0
             /\ last' = Op(name, TRUE, 0)
             /\ UNCHANGED <<products_file, retired_uids, retired_pids, others>>
    ELSE /\ last' = Op(name, FALSE, 0)
         /\ writes' = <<>>
         /\ UNCHANGED <<phase, users, products, users_file, products_file,
                        current_user, loaded_users, loaded_products,
                        retired_uids, retired_pids, others>>

\* SecondHandApp.__init__ / the first Storage(...) of a test
Storage_init ==
    /\ phase = "closed"
    /\ StorageOpen("init")

(***************************************************************************)
(* SecondHandApp: the handlers.  A handler that returns early (no login,   *)
(* an empty entry, a declined confirmation) is not enabled; the two        *)
(* refusals that show an error, a taken email and an administrator chosen  *)
(* for deletion, are steps of their own.                                   *)
(***************************************************************************)
LoggedIn == current_user # 0

Me == users[current_user]

Rejected(name, arg) ==
    /\ last' = Op(name, FALSE, arg)
    /\ writes' = <<>>
    /\ UNCHANGED <<users, products, users_file, products_file, current_user,
                   retired_uids, retired_pids>>

Keep == <<phase, loaded_users, loaded_products, others>>

\* show_register.submit; the entries arrive stripped
Register(email, phone, password, nickname) ==
    /\ phase = "open"
    /\ IF email = "" \/ password = ""
          \/ \E i \in DOMAIN users : users[i].email = email
       THEN Rejected("register", 0)
       ELSE /\ Len(users) < MaxUsers
            /\ ensure_int_id(UserIds(users)) <= MaxId
            /\ users' = Append(users,
                   User(ensure_int_id(UserIds(users)), email, phone, password,
                        nickname, "", FALSE, <<>>))
            /\ users_file' = save_users(users')
            /\ writes' = <<"users">>
            /\ current_user' = Len(users')
            /\ last' = Op("register", TRUE, Len(users'))
            /\ UNCHANGED <<products, products_file, retired_uids, retired_pids>>
    /\ UNCHANGED Keep

\* show_login.do_login: the first user with that email and password
Login(em, pw) ==
    /\ phase = "open"
    /\ LET hits == {i \in DOMAIN users :
                       users[i].email = em /\ users[i].password = pw}
       IN  /\ hits # {}
           /\ current_user' = CHOOSE i \in hits : \A j \in hits : i <= j
           /\ last' = Op("login", TRUE, current_user')
           /\ writes' = <<>>
           /\ UNCHANGED <<users, products, users_file, products_file,
                          retired_uids, retired_pids>>
    /\ UNCHANGED Keep

\* logout, once confirmed
Logout ==
    /\ phase = "open"
    /\ LoggedIn
    /\ current_user' = 0
    /\ last' = Op("logout", TRUE, 0)
    /\ writes' = <<>>
    /\ UNCHANGED <<users, products, users_file, products_file, retired_uids,
                   retired_pids>>
    /\ UNCHANGED Keep

\* show_profile.save: the entries are taken as they are
SaveProfile(email, phone, nickname) ==
    /\ phase = "open"
    /\ LoggedIn
    /\ users' = [users EXCEPT ![current_user] =
                    updateProfile(Me, email, phone, nickname, Me.avatar)]
    /\ users_file' = save_users(users')
    /\ writes' = <<"users">>
    /\ last' = Op("profile", TRUE, current_user)
    /\ UNCHANGED <<products, products_file, current_user, retired_uids,
                   retired_pids>>
    /\ UNCHANGED Keep

\* show_publish.submit
Publish(name, category, description, price_entry) ==
    /\ phase = "open"
    /\ LoggedIn
    /\ name # ""
    /\ Len(products) < MaxProducts
    /\ ensure_int_id(ProductIds(products)) <= MaxId
    /\ products' = Append(products,
           Product(ensure_int_id(ProductIds(products)), name, category,
                   description, safe_float(price_entry, "0.0"), <<>>,
                   Me.userId, <<>>))
    /\ products_file' = save_products(products')
    /\ writes' = <<"products">>
    /\ last' = Op("publish", TRUE, Len(products'))
    /\ UNCHANGED <<users, users_file, current_user, retired_uids, retired_pids>>
    /\ UNCHANGED Keep

\* show_edit.save, offered to the seller of products[i]
EditProduct(i, name, category, description, price_entry) ==
    /\ phase = "open"
    /\ LoggedIn
    /\ i \in DOMAIN products
    /\ products[i].sellerId = Me.userId
    /\ products' = [products EXCEPT ![i] =
                       edit(@, name, category, description,
                            safe_float(price_entry, @.price), @.images)]
    /\ products_file' = save_products(products')
    /\ writes' = <<"products">>
    /\ last' = Op("edit", TRUE, i)
    /\ UNCHANGED <<users, users_file, current_user, retired_uids, retired_pids>>
    /\ UNCHANGED Keep

\* show_detail.post_comment on products[i]
PostComment(i, text) ==
    /\ phase = "open"
    /\ LoggedIn
    /\ i \in DOMAIN products
    /\ text # ""
    /\ Len(products[i].comments) < MaxComments
    /\ products' = [products EXCEPT ![i].comments =
                       Append(@, Comment(Me.userId, Me.nickname, text))]
    /\ products_file' = save_products(products')
    /\ writes' = <<"products">>
    /\ last' = Op("comment", TRUE, i)
    /\ UNCHANGED <<users, users_file, current_user, retired_uids, retired_pids>>
    /\ UNCHANGED Keep

\* toggle_favorite on products[i]
ToggleFavorite(i) ==
    /\ phase = "open"
    /\ LoggedIn
    /\ i \in DOMAIN products
    /\ LET pid == products[i].productId
       IN  users' = [users EXCEPT ![current_user].favorites =
                        IF Contains(@, pid) THEN RemoveFirst(@, pid)
                        ELSE Append(@, pid)]
    /\ users_file' = save_users(users')
    /\ writes' = <<"users">>
    /\ last' = Op("favorite", TRUE, i)
    /\ UNCHANGED <<products, products_file, current_user, retired_uids,
                   retired_pids>>
    /\ UNCHANGED Keep

\* [p for p in products if p.productId != pid]
WithoutProduct(ps, pid) ==
    LET Other(p) == p.productId # pid IN SelectSeq(ps, Other)

\* the cascade comparing the wrong id
WithoutSellerByProductId(ps, uid) ==
    LET Other(p) == p.productId # uid IN SelectSeq(ps, Other)

\* a delete with no cascade
WithoutSellerKeepingAll(ps, uid) == ps

\* [p for p in products if p.sellerId != uid]
WithoutSeller(ps, uid) ==
    LET Other(p) == p.sellerId # uid IN SelectSeq(ps, Other)

\* for u in users: if pid in u.favorites: u.favorites.remove(pid)
DropFavorite(us, pid) ==
    [k \in DOMAIN us |->
        IF Contains(us[k].favorites, pid)
        THEN [us[k] EXCEPT !.favorites = RemoveFirst(@, pid)]
        ELSE us[k]]

\* the two saves the other way round
DeleteSavesUsersFirst == <<"users", "products">>

\* self.storage.save_products(); self.storage.save_users(): the two saves
\* that end _confirm_delete, del_product_admin and del_user, in their order
DeleteSaves == <<"products", "users">>

\* The body shared by _confirm_delete and del_product_admin
DeleteProduct(name, i) ==
    LET pid == products[i].productId
    IN  /\ products' = WithoutProduct(products, pid)
        /\ users' = DropFavorite(users, pid)
        /\ products_file' = save_products(products')
        /\ users_file' = save_users(users')
        /\ writes' = DeleteSaves
        /\ retired_pids' = retired_pids \cup {pid}
        /\ last' = Op(name, TRUE, i)
        /\ UNCHANGED <<current_user, retired_uids>>

\* _confirm_delete, offered to the seller of products[i]
ConfirmDelete(i) ==
    /\ phase = "open"
    /\ LoggedIn
    /\ i \in DOMAIN products
    /\ products[i].sellerId = Me.userId
    /\ DeleteProduct("delete", i)
    /\ UNCHANGED Keep

\* show_admin_panel.del_product_admin on the row idx
DelProductAdmin(idx) ==
    /\ phase = "open"
    /\ LoggedIn
    /\ Me.is_admin
    /\ idx \in DOMAIN products
    /\ DeleteProduct("del_product", idx)
    /\ UNCHANGED Keep

\* if target.is_admin: ... return
RefuseAdminNever(target) == FALSE

RefuseAdmin(target) == target.is_admin

\* show_admin_panel.del_user on the row idx
DelUser(idx) ==
    /\ phase = "open"
    /\ LoggedIn
    /\ Me.is_admin
    /\ idx \in DOMAIN users
    /\ LET target == users[idx]
       IN  IF RefuseAdmin(target)
           THEN Rejected("del_user", idx)
           ELSE /\ products' = WithoutSeller(products, target.userId)
                /\ users' = DelAt(users, idx)
                /\ products_file' = save_products(products')
                /\ users_file' = save_users(users')
                /\ writes' = DeleteSaves
                /\ current_user' = IF idx < current_user THEN current_user - 1
                                   ELSE IF idx = current_user THEN -1
                                   ELSE current_user
                /\ retired_uids' = retired_uids \cup {target.userId}
                /\ retired_pids' = retired_pids \cup
                       {products[k].productId : k \in
                           {j \in DOMAIN products :
                               products[j].sellerId = target.userId}}
                /\ last' = Op("del_user", TRUE, idx)
    /\ UNCHANGED Keep

(***************************************************************************)
(* copy_image_to_storage and the two handlers that call it.  A source is   *)
(* the path handed over, split as os.path.basename and os.path.splitext    *)
(* split it, with what is at that path: a file with its content, a         *)
(* directory, nothing, or ("managed") the file of that name inside the     *)
(* managed directory itself.  shutil.copy2 either copies, or raises before *)
(* it created the destination ("refused"), or raises after it created it   *)
(* ("broken": a write error leaves a cut file behind).                     *)
(***************************************************************************)
None == "None"

Source(path, name, ext, kind, content) ==
    [path |-> path, name |-> name, ext |-> ext, kind |-> kind,
     content |-> content]

\* os.path.exists(src_path)
Exists(src, dir) ==
    IF src.kind = "managed" THEN (src.name \o src.ext) \in DOMAIN dir
    ELSE src.kind \in {"file", "dir"}

ContentOf(src, dir) ==
    IF src.kind = "managed" THEN dir[src.name \o src.ext] ELSE src.content

\* the loop with no test: the base name is taken as it is
FreeNameUnchecked(candidate, name, ext, i, dir) == candidate

\* while os.path.exists(os.path.join(IMAGES_DIR, candidate)): ...
RECURSIVE FreeName(_, _, _, _, _)
FreeName(candidate, name, ext, i, dir) ==
    IF candidate \in DOMAIN dir
    THEN FreeName(name \o "_" \o ToString(i) \o ext, name, ext, i + 1, dir)
    ELSE candidate

\* except Exception: ... return None
FailedCopyResult(candidate) == None

\* The result and the managed directory after copy_image_to_storage(src)
copy_image_to_storage(src, dir, copy2) ==
    IF src.path = "" \/ ~Exists(src, dir)
    THEN [result |-> None, dir |-> dir]
    ELSE LET candidate == FreeName(src.name \o src.ext, src.name, src.ext, 1, dir)
         IN  IF src.kind = "dir" \/ copy2 = "refused"
             THEN [result |-> FailedCopyResult(candidate), dir |-> dir]
             ELSE IF copy2 = "broken"
             THEN [result |-> FailedCopyResult(candidate),
                   dir |-> (candidate :> "") @@ dir]
             ELSE [result |-> "images/" \o candidate,
                   dir |-> (candidate :> ContentOf(src, dir)) @@ dir]

\* a direct call, as the tests make it
Import(src, copy2) ==
    LET r == copy_image_to_storage(src, images_dir, copy2)
    IN  /\ images_dir' = r.dir
        /\ returned' = Append(returned, [src |-> src, result |-> r.result])
        /\ last' = Op("import", r.result # None, 0)
        /\ writes' = <<>>
        /\ UNCHANGED <<phase, users, products, users_file, products_file,
                       current_user, loaded_users, loaded_products,
                       retired_uids, retired_pids, saved, allocvars, filevars,
                       pending>>

\* show_profile.pick_avatar, once a file was chosen: the avatar is set in
\* memory and nothing is saved
PickAvatar(src, copy2) ==
    /\ phase = "open"
    /\ LoggedIn
    /\ src.path # ""
    /\ LET r == copy_image_to_storage(src, images_dir, copy2)
       IN  /\ images_dir' = r.dir
           /\ returned' = Append(returned, [src |-> src, result |-> r.result])
           /\ users' = IF r.result # None
                       THEN [users EXCEPT ![current_user].avatar = r.result]
                       ELSE users
           /\ last' = Op("avatar", r.result # None, current_user)
    /\ writes' = <<>>
    /\ UNCHANGED <<phase, products, users_file, products_file, current_user,
                   loaded_users, loaded_products, retired_uids, retired_pids,
                   saved, allocvars, filevars, pending>>

\* show_publish: the form opens with an empty images list
ShowPublish ==
    /\ phase = "open"
    /\ LoggedIn
    /\ pending # <<>>
    /\ pending' = <<>>
    /\ last' = Op("show_publish", TRUE, 0)
    /\ writes' = <<>>
    /\ UNCHANGED <<phase, users, products, users_file, products_file,
                   current_user, loaded_users, loaded_products, retired_uids,
                   retired_pids, saved, allocvars, filevars, images_dir,
                   returned>>

\* show_publish.add_img / show_edit.add_img, once a file was chosen
AddImg(src, copy2) ==
    /\ phase = "open"
    /\ LoggedIn
    /\ src.path # ""
    /\ LET r == copy_image_to_storage(src, images_dir, copy2)
       IN  /\ images_dir' = r.dir
           /\ returned' = Append(returned, [src |-> src, result |-> r.result])
           /\ pending' = IF r.result # None THEN Append(pending, r.result)
                         ELSE pending
           /\ last' = Op("add_img", r.result # None, 0)
    /\ writes' = <<>>
    /\ UNCHANGED <<phase, users, products, users_file, products_file,
                   current_user, loaded_users, loaded_products, retired_uids,
                   retired_pids, saved, allocvars, filevars>>

(***************************************************************************)
(* Spec: the application.  It starts on one of a few pairs of documents a  *)
(* Storage can have written: none yet, one without an administrator and    *)
(* with a favourite listed twice, one with two administrators; no product, *)
(* one product, a productId held twice.  The managed directory is empty.   *)
(***************************************************************************)
Ann(userId, email, is_admin, favorites) ==
    User(userId, email, "", "pw", "ann", "", is_admin, favorites)

Bike(productId, sellerId) ==
    Product(productId, "bike", "c", "d", "3.0", <<>>, sellerId, <<>>)

SeedUsers ==
    {NoFile,
     save_users(<<Ann(1, "a@x", FALSE, <<1, 1>>)>>),
     save_users(<<DefaultAdmin(<<>>), Ann(2, "a@x", TRUE, <<>>)>>)}

SeedProducts ==
    {NoFile,
     save_products(<<Bike(1, 1)>>),
     save_products(<<Bike(1, 2), Bike(1, 1)>>)}

Emails == {"admin@example.com", "a@x", "b@x"}
Passwords == {"admin", "pw"}
RegEmails == {"", "a@x", "b@x"}
RegPasswords == {"", "pw"}
ProfileEmails == {"b@x"}
Nicknames == {"ann"}
Names == {"bike"}
EditNames == {"lamp"}
PriceEntries == {"3"}
Texts == {"hi"}
SrcPhoto == Source("/home/a.png", "a", ".png", "file", "A")
PickSources == {SrcPhoto}

Init ==
    /\ phase = "closed"
    /\ users = <<>>
    /\ products = <<>>
    /\ users_file \in SeedUsers
    /\ products_file \in SeedProducts
    /\ current_user = 0
    /\ last = Op("none", TRUE, 0)
    /\ writes = <<>>
    /\ loaded_users = <<>>
    /\ loaded_products = <<>>
    /\ retired_uids = {}
    /\ retired_pids = {}
    /\ saved = [users |-> FALSE, products |-> FALSE]
    /\ alloc_ids = <<>>
    /\ alloc_out = <<>>
    /\ saving = "none"
    /\ before = NoFile
    /\ images_dir = <<>>
    /\ pending = <<>>
    /\ returned = <<>>

Next ==
    \/ Storage_init
    \/ \E e \in RegEmails, pw \in RegPasswords, n \in Nicknames :
           Register(e, "", pw, n)
    \/ \E e \in Emails, pw \in Passwords : Login(e, pw)
    \/ Logout
    \/ \E e \in ProfileEmails, n \in Nicknames : SaveProfile(e, "", n)
    \/ \E n \in Names, pe \in PriceEntries : Publish(n, "c", "d", pe)
    \/ \E i \in DOMAIN products, n \in EditNames :
           EditProduct(i, n, "c", "d", "abc")
    \/ \E i \in DOMAIN products, t \in Texts : PostComment(i, t)
    \/ \E i \in DOMAIN products : ToggleFavorite(i)
    \/ \E i \in DOMAIN products : ConfirmDelete(i)
    \/ \E i \in DOMAIN products : DelProductAdmin(i)
    \/ \E i \in DOMAIN users : DelUser(i)
    \/ /\ Len(returned) < MaxPicks
       /\ \E src \in PickSources : PickAvatar(src, "copied")

Spec == Init /\ [][Next]_vars

(***************************************************************************)
(* SpecCrash: the application on a machine that can stop at any moment     *)
(* between two document writes.  It starts with no document.  When the     *)
(* process dies, what it held in memory is gone and the two documents stay *)
(* as the last save left them; the application is then started again on    *)
(* them.  A process that dies inside a delete handler has run the handler  *)
(* up to its first save: that document is written, the other one is not.   *)
(* The handlers are those of Spec that register, publish, delete, change   *)
(* favourites or rewrite a record; post_comment, which rewrites a product  *)
(* as edit does, and pick_avatar, which saves nothing, are left to Spec.   *)
(***************************************************************************)
\* the process ends: the Storage, the session and the open form are gone
ProcessDies ==
    /\ phase' = "closed"
    /\ users' = <<>>
    /\ products' = <<>>
    /\ current_user' = 0
    /\ pending' = <<>>
    /\ UNCHANGED <<loaded_users, loaded_products, retired_uids, saved,
                   allocvars, filevars, images_dir, returned>>

\* the process dies between two handlers
Crash ==
    /\ phase = "open"
    /\ ProcessDies
    /\ last' = Op("crash", TRUE, 0)
    /\ writes' = <<>>
    /\ UNCHANGED <<users_file, products_file, retired_pids>>

\* the first of the two saves of a delete handler has run on the
\* collections ps and us, the second has not
FirstSaveOnly(ps, us) ==
    /\ products_file' = IF Head(DeleteSaves) = "products"
                        THEN save_products(ps) ELSE products_file
    /\ users_file' = IF Head(DeleteSaves) = "users"
                     THEN save_users(us) ELSE users_file
    /\ writes' = <<Head(DeleteSaves)>>

\* _confirm_delete or del_product_admin on products[i], dying between its
\* two saves
DeleteProductCrash(name, i) ==
    LET pid == products[i].productId
    IN  /\ FirstSaveOnly(WithoutProduct(products, pid),
                         DropFavorite(users, pid))
        /\ retired_pids' = retired_pids \cup {pid}
        /\ last' = Op(name, TRUE, i)
        /\ ProcessDies

ConfirmDeleteCrash(i) ==
    /\ phase = "open"
    /\ LoggedIn
    /\ i \in DOMAIN products
    /\ products[i].sellerId = Me.userId
    /\ DeleteProductCrash("delete_crash", i)

DelProductAdminCrash(idx) ==
    /\ phase = "open"
    /\ LoggedIn
    /\ Me.is_admin
    /\ idx \in DOMAIN products
    /\ DeleteProductCrash("del_product_crash", idx)

\* del_user on the row idx, dying between its two saves
DelUserCrash(idx) ==
    /\ phase = "open"
    /\ LoggedIn
    /\ Me.is_admin
    /\ idx \in DOMAIN users
    /\ ~RefuseAdmin(users[idx])
    /\ FirstSaveOnly(WithoutSeller(products, users[idx].userId),
                     DelAt(users, idx))
    /\ retired_pids' = retired_pids \cup
           {products[k].productId : k \in
               {j \in DOMAIN products :
                   products[j].sellerId = users[idx].userId}}
    /\ last' = Op("del_user_crash", TRUE, idx)
    /\ ProcessDies

InitCrash ==
    /\ Init
    /\ users_file = NoFile
    /\ products_file = NoFile

NextCrash ==
    \/ Storage_init
    \/ \E e \in RegEmails, pw \in RegPasswords, n \in Nicknames :
           Register(e, "", pw, n)
    \/ \E e \in Emails, pw \in Passwords : Login(e, pw)
    \/ Logout
    \/ \E e \in ProfileEmails, n \in Nicknames : SaveProfile(e, "", n)
    \/ \E n \in Names, pe \in PriceEntries : Publish(n, "c", "d", pe)
    \/ \E i \in DOMAIN products, n \in EditNames :
           EditProduct(i, n, "c", "d", "abc")
    \/ \E i \in DOMAIN products : ToggleFavorite(i)
    \/ \E i \in DOMAIN products : ConfirmDelete(i)
    \/ \E i \in DOMAIN products : DelProductAdmin(i)
    \/ \E i \in DOMAIN users : DelUser(i)
    \/ Crash
    \/ \E i \in DOMAIN products : ConfirmDeleteCrash(i)
    \/ \E i \in DOMAIN products : DelProductAdminCrash(i)
    \/ \E i \in DOMAIN users : DelUserCrash(i)

SpecCrash == InitCrash /\ [][NextCrash]_vars

(***************************************************************************)
(* SpecStorage: the Storage class driven as src/pytest.py drives it.  The  *)
(* two paths start with no file or with a document a Storage wrote; the    *)
(* test appends records to the collections, saves each collection, and     *)
(* opens a new Storage on the same paths.                                  *)
(***************************************************************************)
RECURSIVE SeqsUpTo(_, _)
SeqsUpTo(S, n) ==
    IF n = 0 THEN {<<>>}
    ELSE LET shorter == SeqsUpTo(S, n - 1)
         IN  shorter \cup {Append(q, x) : q \in shorter, x \in S}

StoreUsers ==
    {User(999, "u@x", "", "p", "u", "", FALSE, <<>>),
     User(20, "x@x", "", "pw", "X", "images/x.png", FALSE, <<201>>),
     User(10, "a@b", "", "pw", "A", "", TRUE, <<>>)}

StoreProducts ==
    {Product(50, "prod", "cat", "d", "1.2", <<>>, 999, <<>>),
     Product(201, "px", "c", "d", "1.0", <<"images/p.png">>, 20,
             <<Comment(20, "X", "hi")>>),
     Product(202, "py", "c", "d", safe_float("nan", "0.0"), <<>>, 20, <<>>)}

InitStorage ==
    /\ phase = "closed"
    /\ users = <<>>
    /\ products = <<>>
    /\ users_file \in
           {NoFile} \cup {save_users(q) : q \in SeqsUpTo(StoreUsers, MaxDocLen)}
    /\ products_file \in
           {NoFile} \cup
           {save_products(q) : q \in SeqsUpTo(StoreProducts, MaxDocLen)}
    /\ current_user = 0
    /\ last = Op("none", TRUE, 0)
    /\ writes = <<>>
    /\ loaded_users = <<>>
    /\ loaded_products = <<>>
    /\ retired_uids = {}
    /\ retired_pids = {}
    /\ saved = [users |-> FALSE, products |-> FALSE]
    /\ alloc_ids = <<>>
    /\ alloc_out = <<>>
    /\ saving = "none"
    /\ before = NoFile
    /\ images_dir = <<>>
    /\ pending = <<>>
    /\ returned = <<>>

\* s2 = main.Storage(users_file=..., products_file=...) on the same paths
Reopen ==
    /\ phase = "open"
    /\ StorageOpen("reopen")

\* s.users.append(u)
AppendUser(u) ==
    /\ phase = "open"
    /\ Len(users) < MaxDocLen
    /\ users' = Append(users, u)
    /\ saved' = [saved EXCEPT !.users = FALSE]
    /\ last' = Op("append_user", TRUE, Len(users'))
    /\ writes' = <<>>
    /\ UNCHANGED <<phase, products, users_file, products_file, current_user,
                   loaded_users, loaded_products, retired_uids, retired_pids,
                   allocvars, filevars, imgvars>>

\* s.products.append(p)
AppendProduct(p) ==
    /\ phase = "open"
    /\ Len(products) < MaxDocLen
    /\ products' = Append(products, p)
    /\ saved' = [saved EXCEPT !.products = FALSE]
    /\ last' = Op("append_product", TRUE, Len(products'))
    /\ writes' = <<>>
    /\ UNCHANGED <<phase, users, users_file, products_file, current_user,
                   loaded_users, loaded_products, retired_uids, retired_pids,
                   allocvars, filevars, imgvars>>

\* s.save_users()
SaveUsers ==
    /\ phase = "open"
    /\ users_file' = save_users(users)
    /\ saved' = [saved EXCEPT !.users = TRUE]
    /\ last' = Op("save_users", TRUE, 0)
    /\ writes' = <<"users">>
    /\ UNCHANGED <<phase, users, products, products_file, current_user,
                   loaded_users, loaded_products, retired_uids, retired_pids,
                   allocvars, filevars, imgvars>>

\* s.save_products()
SaveProducts ==
    /\ phase = "open"
    /\ products_file' = save_products(products)
    /\ saved' = [saved EXCEPT !.products = TRUE]
    /\ last' = Op("save_products", TRUE, 0)
    /\ writes' = <<"products">>
    /\ UNCHANGED <<phase, users, products, users_file, current_user,
                   loaded_users, loaded_products, retired_uids, retired_pids,
                   allocvars, filevars, imgvars>>

NextStorage ==
    \/ Storage_init
    \/ Reopen
    \/ \E u \in StoreUsers : AppendUser(u)
    \/ \E p \in StoreProducts : AppendProduct(p)
    \/ SaveUsers
    \/ SaveProducts

SpecStorage == InitStorage /\ [][NextStorage]_vars

(***************************************************************************)
(* SpecFiles: the two documents as files.  A save opens its file for       *)
(* writing, which creates or empties it, and then json.dump writes the     *)
(* records one after the other; the dump runs to the end, or raises after  *)
(* some of them (a write error, a value json cannot serialize) and the     *)
(* exception reaches the caller of save.  The documents the Storage is     *)
(* first opened on need not be ones a Storage wrote.                       *)
(***************************************************************************)
DocOf(which) == IF which = "users" THEN users_file ELSE products_file

TextOf(which) ==
    IF which = "users" THEN save_users(users) ELSE save_products(products)

\* with open(path, "w", encoding="utf-8") as f:
SaveOpen(which) ==
    /\ phase = "open"
    /\ saving = "none"
    /\ saving' = which
    /\ before' = DocOf(which)
    /\ IF which = "users"
       THEN users_file' = CutFile(<<>>) /\ UNCHANGED products_file
       ELSE products_file' = CutFile(<<>>) /\ UNCHANGED users_file
    /\ last' = Op("open_" \o which, TRUE, 0)
    /\ writes' = <<>>
    /\ UNCHANGED <<phase, users, products, current_user, loaded_users,
                   loaded_products, retired_uids, retired_pids, saved,
                   allocvars, imgvars>>

\* json.dump(...) runs to the end and the file is closed
SaveDump ==
    /\ saving # "none"
    /\ saving' = "none"
    /\ IF saving = "users"
       THEN users_file' = TextOf(saving) /\ UNCHANGED products_file
       ELSE products_file' = TextOf(saving) /\ UNCHANGED users_file
    /\ last' = Op("save_" \o saving, TRUE, 0)
    /\ writes' = <<saving>>
    /\ UNCHANGED <<phase, users, products, current_user, loaded_users,
                   loaded_products, retired_uids, retired_pids, saved,
                   allocvars, imgvars, before>>

\* json.dump raises after k records: the file is closed as it is and the
\* exception leaves save_users / save_products
SaveRaises(k) ==
    /\ saving # "none"
    /\ k \in 0..Len(TextOf(saving).data)
    /\ saving' = "none"
    /\ IF saving = "users"
       THEN /\ users_file' = CutFile(SubSeq(TextOf(saving).data, 1, k))
            /\ UNCHANGED products_file
       ELSE /\ products_file' = CutFile(SubSeq(TextOf(saving).data, 1, k))
            /\ UNCHANGED users_file
    /\ last' = Op("save_" \o saving, FALSE, 0)
    /\ writes' = <<saving>>
    /\ UNCHANGED <<phase, users, products, current_user, loaded_users,
                   loaded_products, retired_uids, retired_pids, saved,
                   allocvars, imgvars, before>>

\* Documents of other origin: {}, an empty file, a user without the fields
\* that have defaults, a user without a password, a user with a field the
\* layout does not have
FileUsers ==
    {NoFile,
     EmptyObjectFile,
     CutFile(<<>>),
     save_users(<<User(10, "a@b", "", "pw", "A", "", TRUE, <<>>)>>),
     FileOf(<< << <<"userId", 5>>, <<"email", "o@x">>, <<"phone", "">>,
                  <<"password", "pw">>, <<"nickname", "old">> >> >>),
     FileOf(<< << <<"userId", 5>>, <<"email", "o@x">>, <<"phone", "">>,
                  <<"nickname", "old">> >> >>),
     FileOf(<< user_to_json(User(5, "o@x", "", "pw", "old", "", FALSE, <<>>))
               \o << <<"role", "x">> >> >>)}

\* {}, an empty file, a product without comments, a product without sellerId
FileProducts ==
    {NoFile,
     EmptyObjectFile,
     CutFile(<<>>),
     save_products(<<Product(50, "prod", "cat", "d", "1.2", <<>>, 999, <<>>)>>),
     FileOf(<< << <<"productId", 7>>, <<"name", "n">>, <<"category", "c">>,
                  <<"description", "d">>, <<"price", "2.0">>,
                  <<"images", <<>> >>, <<"sellerId", 5>> >> >>),
     FileOf(<< << <<"productId", 7>>, <<"name", "n">>, <<"category", "c">>,
                  <<"description", "d">>, <<"price", "2.0">>,
                  <<"images", <<>> >> >> >>)}

InitFiles ==
    /\ phase = "closed"
    /\ users = <<>>
    /\ products = <<>>
    /\ users_file \in FileUsers
    /\ products_file \in FileProducts
    /\ current_user = 0
    /\ last = Op("none", TRUE, 0)
    /\ writes = <<>>
    /\ loaded_users = <<>>
    /\ loaded_products = <<>>
    /\ retired_uids = {}
    /\ retired_pids = {}
    /\ saved = [users |-> FALSE, products |-> FALSE]
    /\ alloc_ids = <<>>
    /\ alloc_out = <<>>
    /\ saving = "none"
    /\ before = NoFile
    /\ images_dir = <<>>
    /\ pending = <<>>
    /\ returned = <<>>

NextFiles ==
    \/ Storage_init
    \/ saving = "none" /\ Reopen
    \/ saving = "none" /\ \E u \in StoreUsers : AppendUser(u)
    \/ saving = "none" /\ \E p \in StoreProducts : AppendProduct(p)
    \/ \E which \in {"users", "products"} : SaveOpen(which)
    \/ SaveDump
    \/ \E k \in 0..MaxDocLen : SaveRaises(k)

SpecFiles == InitFiles /\ [][NextFiles]_vars

(***************************************************************************)
(* SpecImages: copy_image_to_storage called directly, as the tests call    *)
(* it, and through pick_avatar and add_img by the logged-in administrator  *)
(* of a fresh Storage.  The managed directory starts empty or with files   *)
(* of earlier imports in it.                                               *)
(***************************************************************************)
SrcOther == Source("/tmp/a.png", "a", ".png", "file", "B")
SrcSuffixed == Source("/home/a_1.png", "a_1", ".png", "file", "C")
SrcMissing == Source("no_such_file.jpg", "no_such_file", ".jpg", "missing", "")
SrcEmpty == Source("", "", "", "missing", "")
SrcDir == Source("/home/pics", "pics", "", "dir", "")
SrcManaged == Source("images/a.png", "a", ".png", "managed", "")

ImportSources ==
    {SrcPhoto, SrcOther, SrcSuffixed, SrcMissing, SrcEmpty, SrcDir, SrcManaged}

Copy2Outcomes == {"copied", "refused", "broken"}

SeedDirs ==
    {<<>>,
     "a.png" :> "A",
     ("a.png" :> "A") @@ ("a_1.png" :> "Z")}

InitImages ==
    /\ phase = "open"
    /\ users = <<DefaultAdmin(<<>>)>>
    /\ products = <<>>
    /\ users_file = save_users(users)
    /\ products_file = NoFile
    /\ current_user = 1
    /\ last = Op("login", TRUE, 1)
    /\ writes = <<>>
    /\ loaded_users = <<>>
    /\ loaded_products = <<>>
    /\ retired_uids = {}
    /\ retired_pids = {}
    /\ saved = [users |-> FALSE, products |-> FALSE]
    /\ alloc_ids = <<>>
    /\ alloc_out = <<>>
    /\ saving = "none"
    /\ before = NoFile
    /\ images_dir \in SeedDirs
    /\ pending = <<>>
    /\ returned = <<>>

NextImages ==
    \/ /\ Len(returned) < MaxImports
       /\ \E src \in ImportSources, c \in Copy2Outcomes : Import(src, c)
    \/ /\ Len(returned) < MaxImports
       /\ \E src \in ImportSources, c \in Copy2Outcomes : PickAvatar(src, c)
    \/ /\ Len(returned) < MaxImports
       /\ \E src \in ImportSources, c \in Copy2Outcomes : AddImg(src, c)
    \/ ShowPublish

SpecImages == InitImages /\ [][NextImages]_vars

(***************************************************************************)
(* SpecAlloc: ensure_int_id on a list of ids, its result appended to the   *)
(* list, and again.                                                        *)
(***************************************************************************)
AllocPool == {-3, 0, 1, 2, 5}

InitAlloc ==
    /\ phase = "alloc"
    /\ users = <<>>
    /\ products = <<>>
    /\ users_file = NoFile
    /\ products_file = NoFile
    /\ current_user = 0
    /\ last = Op("none", TRUE, 0)
    /\ writes = <<>>
    /\ loaded_users = <<>>
    /\ loaded_products = <<>>
    /\ retired_uids = {}
    /\ retired_pids = {}
    /\ saved = [users |-> FALSE, products |-> FALSE]
    /\ alloc_ids \in SeqsUpTo(AllocPool, MaxAllocLen)
    /\ alloc_out = <<>>
    /\ saving = "none"
    /\ before = NoFile
    /\ images_dir = <<>>
    /\ pending = <<>>
    /\ returned = <<>>

Allocate ==
    /\ phase = "alloc"
    /\ Len(alloc_out) < MaxAllocLen
    /\ alloc_out' = Append(alloc_out, ensure_int_id(alloc_ids))
    /\ alloc_ids' = Append(alloc_ids, ensure_int_id(alloc_ids))
    /\ UNCHANGED <<appvars, saved, filevars, imgvars>>

NextAlloc == Allocate

SpecAlloc == InitAlloc /\ [][NextAlloc]_vars

(***************************************************************************)
(* The claims.                                                             *)
(***************************************************************************)
AdminCount(us) == Cardinality({i \in DOMAIN us : us[i].is_admin})

Unique(ids) == \A i, j \in DOMAIN ids : ids[i] = ids[j] => i = j

\* C1: Storage initialization.  When the loaded users hold no administrator,
\* users afterwards is the loaded users, in order, followed by one default
\* administrator (admin@example.com, Administrator, empty phone, admin flag,
\* no favourites, id 1 for an empty list and otherwise the largest loaded id
\* plus one), and the users document holds that collection and was written.
\* When they hold an administrator, users is the loaded users and the users
\* document is not written.
C1_InitPostcondition ==
    [][(last'.op \in {"init", "reopen"} /\ last'.ok) =>
        LET lu == load_users(users_file)
            n == Len(lu)
        IN  IF \A i \in 1..n : ~lu[i].is_admin
            THEN /\ Len(users') = n + 1
                 /\ \A i \in 1..n : users'[i] = lu[i]
                 /\ users'[n + 1].email = "admin@example.com"
                 /\ users'[n + 1].nickname = "Administrator"
                 /\ users'[n + 1].phone = ""
                 /\ users'[n + 1].is_admin
                 /\ users'[n + 1].favorites = <<>>
                 /\ IF n = 0 THEN users'[n + 1].userId = 1
                    ELSE /\ \A i \in 1..n : lu[i].userId < users'[n + 1].userId
                         /\ \E i \in 1..n :
                                lu[i].userId + 1 = users'[n + 1].userId
                 /\ AdminCount(users') = 1
                 /\ users_file'.exists
                 /\ load_users(users_file') = users'
                 /\ writes' = <<"users">>
            ELSE /\ users' = lu
                 /\ users_file' = users_file
                 /\ writes' = <<>>]_vars

\* C1 witness: a Storage opened on a document of two users, none an
\* administrator, now holds them and the administrator
C1_Witness ==
    /\ last.op = "init"
    /\ Len(loaded_users) = 2
    /\ AdminCount(loaded_users) = 0
    /\ Len(users) = 3
    /\ users[3].is_admin
    /\ writes = <<"users">>

\* C2 as stated: once the Storage is constructed, exactly one user has the
\* admin flag, whatever users document was loaded
C2_ExactlyOneAdmin == phase = "open" => AdminCount(users) = 1

\* C2 as amended: once the Storage is constructed, the number of users with
\* the admin flag is the number the loaded document had, or one when it had
\* none, and no application action changes it: exactly one administrator
\* whenever the loaded document had at most one
C2_AdminCountKept ==
    phase = "open" =>
        AdminCount(users) =
            IF AdminCount(loaded_users) = 0 THEN 1
            ELSE AdminCount(loaded_users)

\* C2 witness: an administrator synthesized at initialization is the only
\* one after a user was registered and deleted again
C2_Witness ==
    /\ last = Op("del_user", TRUE, 2)
    /\ AdminCount(loaded_users) = 0
    /\ AdminCount(users) = 1
    /\ retired_uids # {}

\* C3: a confirmed del_user of the non-admin user T at row idx removes T
\* and nothing else from users, removes the products whose sellerId is T's
\* userId and nothing else from products, keeps the order of the rest, and
\* writes both documents
C3_DelUserCascade ==
    [][(last'.op = "del_user" /\ last'.ok) =>
        LET idx == last'.arg
            T == users[idx]
            kept == {j \in DOMAIN products : products[j].sellerId # T.userId}
        IN  /\ ~T.is_admin
            /\ Len(users') = Len(users) - 1
            /\ \A j \in DOMAIN users' :
                   users'[j] = users[IF j < idx THEN j ELSE j + 1]
            /\ Len(products') = Cardinality(kept)
            /\ \A j \in DOMAIN products' : products'[j].sellerId # T.userId
            /\ \A j \in kept :
                   products'[Cardinality({k \in kept : k <= j})] = products[j]
            /\ writes' = <<"products", "users">>
            /\ load_users(users_file') = users'
            /\ load_products(products_file') = products']_vars

\* C3 witness: of two loaded products with the same productId, the one sold
\* by the deleted user 1 is gone and the other one is left, as is the
\* administrator
C3_Witness ==
    /\ last.op = "del_user"
    /\ last.ok
    /\ retired_uids = {1}
    /\ Len(loaded_products) = 2
    /\ Len(products) = 1
    /\ products[1].sellerId # 1
    /\ Len(users) = 1

\* C4: del_user on a row holding an administrator is refused and leaves
\* users, products and both documents as they were and writes nothing; and
\* no step of the application removes an admin-flagged user from users
C4_AdminNotDeleted ==
    [][/\ (last'.op = "del_user" /\ ~last'.ok) =>
              /\ users[last'.arg].is_admin
              /\ users' = users
              /\ products' = products
              /\ users_file' = users_file
              /\ products_file' = products_file
              /\ writes' = <<>>
       /\ phase = "open" =>
              LET Admin(u) == u.is_admin
              IN  UserIds(SelectSeq(users', Admin)) =
                  UserIds(SelectSeq(users, Admin))]_vars

\* C4 witness: the administrator chose an administrator's row and was refused
C4_Witness ==
    /\ last.op = "del_user"
    /\ ~last.ok
    /\ users[last.arg].is_admin
    /\ Len(users) >= 2

\* C5 as stated: after a product delete by the seller (_confirm_delete) or
\* by the administrator (del_product_admin), no product has the deleted
\* productId, no user's favorites list holds it, whatever the lists held
\* before, and both documents were written
C5_FavoritesCleaned ==
    [][(last'.op \in {"delete", "del_product"} /\ last'.ok) =>
        LET pid == products[last'.arg].productId
        IN  /\ \A j \in DOMAIN products' : products'[j].productId # pid
            /\ \A k \in DOMAIN users' :
                   \A f \in DOMAIN users'[k].favorites :
                       users'[k].favorites[f] # pid
            /\ writes' = <<"products", "users">>]_vars

\* C6 as stated: starting from empty documents, every id in every user's
\* favorites list is the productId of a product in products
C6_NoDanglingFavorite ==
    (phase = "open" /\ loaded_users = <<>> /\ loaded_products = <<>>) =>
        \A k \in DOMAIN users :
            \A f \in DOMAIN users[k].favorites :
                \E j \in DOMAIN products :
                    products[j].productId = users[k].favorites[f]

\* C7: each result of ensure_int_id is 1 for the empty list and otherwise
\* one more than the largest id of the list it was given, so it is greater
\* than every id of that list; and when each result is added to the list,
\* every result is greater than the one before
C7_Allocator ==
    \A k \in DOMAIN alloc_out :
        LET given == SubSeq(alloc_ids, 1,
                            Len(alloc_ids) - Len(alloc_out) + k - 1)
            r == alloc_out[k]
        IN  /\ given = <<>> => r = 1
            /\ given # <<>> => \E i \in DOMAIN given :
                                   /\ r = given[i] + 1
                                   /\ \A j \in DOMAIN given : given[j] <= given[i]
            /\ \A i \in DOMAIN given : given[i] < r
            /\ k > 1 => alloc_out[k - 1] < r

\* C7 witness: three ids allocated in a row from a list that was not empty
\* and not sorted
C7_Witness ==
    /\ Len(alloc_out) = 3
    /\ Len(alloc_ids) = 6
    /\ alloc_ids[1] > alloc_ids[2]
    /\ alloc_out[1] < alloc_out[2]
    /\ alloc_out[2] < alloc_out[3]

\* C8 as stated: the userId given to a newly registered user was never the
\* userId of a deleted user, and the productId given to a newly published
\* product was never the productId of a deleted product
C8_NoIdReuse ==
    [][/\ (last'.op = "register" /\ last'.ok) =>
              users'[Len(users')].userId \notin retired_uids
       /\ (last'.op = "publish" /\ last'.ok) =>
              products'[Len(products')].productId \notin retired_pids]_vars

C10_RoundTrip ==
    [][(/\ last'.op = "reopen"
        /\ saved.users
        /\ saved.products
        /\ AdminCount(users) >= 1) =>
           /\ users' = users
           /\ Products_eq(products', products)]_vars

\* C10 as amended: the same, for a products collection in which no price is
\* nan
C10_RoundTripNoNaN ==
    [][(/\ last'.op = "reopen"
        /\ saved.users
        /\ saved.products
        /\ AdminCount(users) >= 1
        /\ \A j \in DOMAIN products : products[j].price # "nan") =>
           /\ users' = users
           /\ Products_eq(products', products)]_vars

\* C10 witness: a Storage reopened on saved collections that hold a user
\* with an avatar and a favourite, and products with a price, an image and
\* a comment, none with a nan price
C10_Witness ==
    /\ last.op = "reopen"
    /\ saved.users
    /\ saved.products
    /\ AdminCount(users) >= 1
    /\ \E i \in DOMAIN users :
           users[i].favorites # <<>> /\ users[i].avatar # ""
    /\ Len(products) = 2
    /\ \A j \in DOMAIN products : products[j].price # "nan"
    /\ \E j \in DOMAIN products :
           products[j].comments # <<>> /\ products[j].images # <<>>
    /\ users_file = save_users(users)
    /\ products_file = save_products(products)

\* C11 as stated: whenever no action is in progress, the users document
\* holds the in-memory users collection and the products document holds the
\* in-memory products collection
C11_DocumentsCurrent ==
    phase = "open" =>
        /\ load_users(users_file) = users
        /\ load_products(products_file) = products

\* C12 as stated: while a save is in progress and after it ended, by
\* returning or by raising, the document it wrote to holds either all it
\* held before the save or the whole serialization of the collection in
\* memory
C12_AtomicSave ==
    /\ (saving = "users" \/ last.op = "save_users") =>
           users_file \in {before, save_users(users)}
    /\ (saving = "products" \/ last.op = "save_products") =>
           products_file \in {before, save_products(products)}

WellFormedUsers(file) ==
    /\ file.syntax = "array"
    /\ \A i \in DOMAIN file.data : Keys(file.data[i]) = UserFields

WellFormedProducts(file) ==
    /\ file.syntax = "array"
    /\ \A i \in DOMAIN file.data : Keys(file.data[i]) = ProductFields

\* C13 as stated: when a document exists and is not an array of records
\* that carry every field of the layout, Storage() raises, there is no
\* Storage, no collection, no administrator, and no document is written;
\* otherwise Storage() succeeds and a missing document loads as empty
C13_MalformedRejected ==
    [][last'.op = "init" =>
        IF \/ users_file.exists /\ ~WellFormedUsers(users_file)
           \/ products_file.exists /\ ~WellFormedProducts(products_file)
        THEN /\ ~last'.ok
             /\ phase' = "closed"
             /\ users' = <<>>
             /\ products' = <<>>
             /\ users_file' = users_file
             /\ products_file' = products_file
             /\ writes' = <<>>
        ELSE /\ last'.ok
             /\ phase' = "open"
             /\ ~users_file.exists => loaded_users' = <<>>
             /\ ~products_file.exists => products' = <<>>]_vars

\* the k-th smallest member of a set of positions
Nth(keep, k) == CHOOSE j \in keep : Cardinality({i \in keep : i <= j}) = k

DeleteOps == {"delete", "del_product", "del_user"}

\* C14: over every step of the application, every product that is not
\* deleted by the step keeps the comments it had, each with its userId,
\* nickname and text, in their order; the only change to a comments list is
\* post_comment appending one comment that carries the poster's userId and
\* the nickname the poster has at that moment
C14_CommentSnapshot ==
    [][phase = "open" =>
        \E keep \in SUBSET DOMAIN products :
            /\ last'.op \notin DeleteOps => keep = DOMAIN products
            /\ Len(products') = Cardinality(keep) +
                   (IF last'.op = "publish" /\ last'.ok THEN 1 ELSE 0)
            /\ \A k \in 1..Cardinality(keep) :
                   LET old == products[Nth(keep, k)].comments
                       new == products'[k].comments
                   IN  /\ Len(new) >= Len(old)
                       /\ SubSeq(new, 1, Len(old)) = old
                       /\ Len(new) > Len(old) =>
                              /\ last'.op = "comment"
                              /\ Len(new) = Len(old) + 1
                              /\ new[Len(new)].userId = Me.userId
                              /\ new[Len(new)].nickname = Me.nickname]_vars

\* C14 witness: after a profile save the poster of a stored comment has
\* another nickname than the one the comment carries
C14_Witness ==
    /\ last.op = "profile"
    /\ LoggedIn
    /\ \E j \in DOMAIN products : \E c \in DOMAIN products[j].comments :
           /\ products[j].comments[c].userId = Me.userId
           /\ products[j].comments[c].nickname = "Administrator"
           /\ Me.nickname # "Administrator"

ImageOps == {"import", "avatar", "add_img"}

\* C15: every successful import leaves each file of the managed directory
\* under its name with its content and adds exactly one file, with the
\* content of the source, named by the base name of the source when that
\* name was free and otherwise name_i.ext for the least i >= 1 that was
\* free; it returns the path of that file, and no two successful imports
\* returned the same path
C15_NoOverwrite ==
    [][(last'.op \in ImageOps /\ last'.ok) =>
        LET call == returned'[Len(returned')]
            src == call.src
            taken == DOMAIN images_dir
            added == DOMAIN images_dir' \ taken
        IN  /\ \A n \in taken :
                   n \in DOMAIN images_dir' /\ images_dir'[n] = images_dir[n]
            /\ Cardinality(added) = 1
            /\ \A n \in added :
                   /\ call.result = "images/" \o n
                   /\ images_dir'[n] = ContentOf(src, images_dir)
                   /\ IF (src.name \o src.ext) \notin taken
                      THEN n = src.name \o src.ext
                      ELSE \E i \in 1..(Cardinality(taken) + 1) :
                               /\ n = src.name \o "_" \o ToString(i) \o src.ext
                               /\ \A j \in 1..(i - 1) :
                                      (src.name \o "_" \o ToString(j) \o src.ext)
                                          \in taken
            /\ \A i, j \in DOMAIN returned' :
                   (/\ i # j
                    /\ returned'[i].result # None
                    /\ returned'[j].result # None) =>
                       returned'[i].result # returned'[j].result]_vars

\* C15 witness: two files of the same base name imported into a directory
\* that held a.png and a_1.png: they became a_2.png and a_3.png and the
\* two older files are as they were
C15_Witness ==
    /\ Len(returned) = 2
    /\ returned[1].result = "images/a_2.png"
    /\ returned[2].result = "images/a_3.png"
    /\ images_dir["a.png"] = "A"
    /\ images_dir["a_1.png"] = "Z"
    /\ images_dir["a_2.png"] # images_dir["a_3.png"]

\* C16 as stated: an import that fails returns None and leaves the set of
\* files of the managed directory, the user's avatar and the pending image
\* list as they were
C16_FailureLeavesNoTrace ==
    [][(last'.op \in ImageOps /\ ~last'.ok) =>
        /\ returned'[Len(returned')].result = None
        /\ DOMAIN images_dir' = DOMAIN images_dir
        /\ users' = users
        /\ pending' = pending]_vars

\* C17: updateProfile gives the user the email, phone, nickname and avatar
\* handed over and keeps userId, password, admin flag and favorites; and a
\* profile save keeps every user's userId, password, admin flag and
\* favorites, changes no other user, and changes no product
C17_UpdateProfileFrame ==
    /\ [](\A i \in DOMAIN users :
              \A e \in ProfileEmails \cup {""}, n \in Nicknames \cup {""},
                 a \in {"", "images/a.png"} :
                  updateProfile(users[i], e, "555", n, a) =
                      User(users[i].userId, e, "555", users[i].password, n, a,
                           users[i].is_admin, users[i].favorites))
    /\ [][last'.op = "profile" =>
              /\ Len(users') = Len(users)
              /\ \A i \in DOMAIN users :
                     /\ users'[i].userId = users[i].userId
                     /\ users'[i].password = users[i].password
                     /\ users'[i].is_admin = users[i].is_admin
                     /\ users'[i].favorites = users[i].favorites
                     /\ i # current_user => users'[i] = users[i]
              /\ products' = products]_vars

\* C17 witness: the administrator, holding a favourite, saved a profile
\* with another email and nickname and is still the administrator with
\* that favourite
C17_Witness ==
    /\ last.op = "profile"
    /\ LoggedIn
    /\ Me.is_admin
    /\ Me.email = "b@x"
    /\ Me.nickname = "ann"
    /\ Me.password = "admin"
    /\ Me.favorites # <<>>

\* C18: edit gives the product the name, category, description, price and
\* images handed over and keeps productId, sellerId and comments; and over
\* every step of the application every product that is not deleted by the
\* step keeps its productId and its sellerId
C18_EditFrame ==
    /\ [](\A j \in DOMAIN products :
              edit(products[j], "lamp", "c2", "d2", "9.0", <<"images/a.png">>) =
                  Product(products[j].productId, "lamp", "c2", "d2", "9.0",
                          <<"images/a.png">>, products[j].sellerId,
                          products[j].comments))
    /\ [][phase = "open" =>
              \E keep \in SUBSET DOMAIN products :
                  /\ last'.op \notin DeleteOps => keep = DOMAIN products
                  /\ Len(products') = Cardinality(keep) +
                         (IF last'.op = "publish" /\ last'.ok THEN 1 ELSE 0)
                  /\ \A k \in 1..Cardinality(keep) :
                         /\ products'[k].productId =
                                products[Nth(keep, k)].productId
                         /\ products'[k].sellerId =
                                products[Nth(keep, k)].sellerId]_vars

\* C18 witness: the seller edited a product that carries a comment; it has
\* the new name, the old price (the entry was no number), its comment and
\* its seller
C18_Witness ==
    /\ last.op = "edit"
    /\ LoggedIn
    /\ products[last.arg].name = "lamp"
    /\ products[last.arg].price = "3.0"
    /\ products[last.arg].comments # <<>>
    /\ products[last.arg].sellerId = Me.userId

EmailsOf(us) == [i \in DOMAIN us |-> us[i].email]

\* C19 as stated: starting from users with pairwise different emails, no
\* two users have the same email after any registrations and profile saves
C19_UniqueEmails ==
    (phase = "open" /\ Unique(EmailsOf(loaded_users))) =>
        Unique(EmailsOf(users))

\* C20: starting from empty documents, the logged-in user is one of users,
\* every product's sellerId is the userId of one of users, and a user who
\* has just registered is the seller of no product
C20_SellersExist ==
    (phase = "open" /\ loaded_users = <<>> /\ loaded_products = <<>>) =>
        /\ current_user # 0 => current_user \in DOMAIN users
        /\ \A j \in DOMAIN products :
               \E i \in DOMAIN users : users[i].userId = products[j].sellerId
        /\ (last.op = "register" /\ last.ok) =>
               \A j \in DOMAIN products :
                   products[j].sellerId # users[last.arg].userId

\* C20 witness: from empty documents a user was registered under the userId
\* of a deleted user whose product went with them, while a product of the
\* administrator is on sale
C20_Witness ==
    /\ loaded_users = <<>>
    /\ loaded_products = <<>>
    /\ last.op = "register"
    /\ last.ok
    /\ users[last.arg].userId \in retired_uids
    /\ retired_pids # {}
    /\ products # <<>>

CrashOps == {"delete_crash", "del_product_crash", "del_user_crash"}

\* the records of the two documents as they are on disk
PersistedUsers == IF users_file.exists THEN users_file.data ELSE <<>>
PersistedProducts == IF products_file.exists THEN products_file.data ELSE <<>>

\* C21: every delete handler writes the products document before the users
\* document, and, starting from no document and with the process dying
\* between any two document writes, every record of the products document
\* has at every moment the userId of a record of the users document as
\* its sellerId
C21_ProductsFirst ==
    /\ [](\A j \in DOMAIN PersistedProducts :
             \E i \in DOMAIN PersistedUsers :
                 Get(PersistedUsers[i], "userId") =
                     Get(PersistedProducts[j], "sellerId"))
    /\ [][/\ (last'.op \in DeleteOps /\ last'.ok) =>
                 writes' = <<"products", "users">>
          /\ last'.op \in CrashOps => writes' = <<"products">>]_vars

\* C21 witness: the process died in the middle of del_user on a user whose
\* product had been on disk: the users document still has the user, the
\* products document has no product of theirs
C21_Witness ==
    /\ last.op = "del_user_crash"
    /\ phase = "closed"
    /\ last.arg \in DOMAIN PersistedUsers
    /\ \E j \in DOMAIN loaded_products :
           loaded_products[j].sellerId =
               Get(PersistedUsers[last.arg], "userId")
    /\ \A j \in DOMAIN PersistedProducts :
           Get(PersistedProducts[j], "sellerId") #
               Get(PersistedUsers[last.arg], "userId")
=============================================================================
